---- MODULE Spec2Model ----
(***************************************************************************)
(* A model of app.py, the Streamlit dashboard of the retail expansion      *)
(* score grid: the cached loader, the two colour functions, the filter     *)
(* block of the sidebar, the four tabs and the column projections.         *)
(*                                                                         *)
(* A Streamlit script is re-executed from the top on every interaction.    *)
(* One execution writes the upload, loads the grid, and then reads its     *)
(* widgets and draws its outputs one st.* call after the other; a widget   *)
(* change ends a running execution at its next st.* call (Stop).  The      *)
(* files and the cache are shared by all the sessions of the process,      *)
(* whose script threads are not serialised.                                *)
(* Colours are RGBA tuples.  A missing scalar (None / NaN) is None for a   *)
(* label and NaN for a number.                                             *)
(***************************************************************************)
EXTENDS Integers, Sequences, FiniteSets, TLC

VARIABLES
    pc,             \* position in the run: "run", "load", "failed", "loaded",
                    \* "retail", "flood", "landuse", "score", "main", "tab1",
                    \* "map", "legend", "tabs", "tab4", "multiselect", "tail",
                    \* "done", "stopped";
                    \* "call", "returned" for a call of a function
    args,           \* arguments of the pending call of a pure function
    ret,            \* value the pure function returned, <<>> before the call
    disk,           \* file path -> bytes of the file at that path
    cache,          \* st.cache_data of load_grid_data: path -> cached GeoDataFrame
    parses,         \* path -> executions of gpd.read_file (line 22) since the cache
                    \* was cleared, whether they returned or raised
    first_run,      \* the session has no widget state yet
    uploaded_file,  \* value of st.sidebar.file_uploader
    selected_dataset, \* value of the dataset selectbox
    widgets,        \* the values the filter and mode widgets returned in the run
    loaded,         \* gdf as load_grid_data returned it in the run
    from_cache,     \* the load of the run was served from the cache
    stages,         \* gdf after each step of the filter block
    plot,           \* fill_color, color_by, important_cols, default_cols of the run
    todo,           \* the outputs the statements ahead draw, once they are settled
    rendered        \* the outputs the run drew, in order

vars == <<pc, args, ret, disk, cache, parses, first_run, uploaded_file,
          selected_dataset, widgets, loaded, from_cache, stages, plot,
          todo, rendered>>

\* ------------------------------------------------------------------ values

\* None, as a class label or a column name
None == "<None>"

\* NaN, as a number: pd.isna(value)
NaN == -1000

Max(a, b) == IF a >= b THEN a ELSE b
Min(a, b) == IF a <= b THEN a ELSE b

\* ------------------------------------------------ double-precision numbers

\* A Python float is an IEEE-754 double: a significand of 53 bits, every
\* operation rounded to the nearest double, ties to even.
Significand == 53

\* A non-negative double is held exactly, as a natural number of units of
\* 2^-FracBits written in binary, least significant bit first, without high
\* zero bits (zero is <<>>).  Every double that get_color_scale computes from
\* integers with vmax - vmin < 2^16 is a whole number of these units.
FracBits == 70

RECURSIVE Bits(_)
Bits(n) == IF n = 0 THEN <<>> ELSE <<n % 2>> \o Bits(n \div 2)

RECURSIVE ToNat(_)
ToNat(x) == IF x = <<>> THEN 0 ELSE x[1] + 2 * ToNat(Tail(x))

Zeros(k) == [i \in 1..k |-> 0]

RECURSIVE Trim(_)
Trim(x) ==
    IF x # <<>> /\ x[Len(x)] = 0 THEN Trim(SubSeq(x, 1, Len(x) - 1)) ELSE x

\* float(n) of an integer n >= 0
FromInt(n) == IF n = 0 THEN <<>> ELSE Zeros(FracBits) \o Bits(n)

\* 0.5
Half == Zeros(FracBits - 1) \o <<1>>

Bit(x, i) == IF i <= Len(x) THEN x[i] ELSE 0

\* x + y + carry, exactly
RECURSIVE AddCarry(_, _, _)
AddCarry(x, y, carry) ==
    IF x = <<>> /\ y = <<>> THEN Bits(carry)
    ELSE LET s == Bit(x, 1) + Bit(y, 1) + carry
         IN  <<s % 2>> \o AddCarry(IF x = <<>> THEN x ELSE Tail(x),
                                   IF y = <<>> THEN y ELSE Tail(y), s \div 2)

\* x - y - borrow, exactly, for x >= y + borrow
RECURSIVE SubBorrow(_, _, _)
SubBorrow(x, y, borrow) ==
    IF x = <<>> THEN <<>>
    ELSE LET d == x[1] - Bit(y, 1) - borrow
         IN  <<d % 2>> \o SubBorrow(Tail(x), IF y = <<>> THEN y ELSE Tail(y),
                                    IF d < 0 THEN 1 ELSE 0)

\* x * k + carry, exactly, for a natural number k
RECURSIVE MulCarry(_, _, _)
MulCarry(x, k, carry) ==
    IF x = <<>> THEN Bits(carry)
    ELSE LET p == x[1] * k + carry
         IN  <<p % 2>> \o MulCarry(Tail(x), k, p \div 2)

\* x < y
Less(x, y) ==
    \/ Len(x) < Len(y)
    \/ /\ Len(x) = Len(y)
       /\ \E i \in DOMAIN x : /\ x[i] < y[i]
                              /\ \A j \in (i + 1)..Len(x) : x[j] = y[j]

\* The double nearest to x, ties to even; inexact says that the exact value
\* is above x by less than one unit.
Round(x, inexact) ==
    IF Len(x) <= Significand THEN x
    ELSE LET t == Len(x) - Significand
             q == SubSeq(x, t + 1, Len(x))
             below == inexact \/ \E i \in 1..(t - 1) : x[i] = 1
             up == x[t] = 1 /\ (below \/ q[1] = 1)
         IN  Zeros(t) \o (IF up THEN AddCarry(q, <<1>>, 0) ELSE q)

\* the double operations x + y, x - y (x >= y) and x * k
Add(x, y) == Round(AddCarry(x, y, 0), FALSE)
Sub(x, y) == Round(Trim(SubBorrow(x, y, 0)), FALSE)
Mul(x, k) == Round(Trim(MulCarry(x, k, 0)), FALSE)

\* the first k binary places of r / b, for 0 <= r < b
RECURSIVE Places(_, _, _)
Places(r, b, k) ==
    IF k = 0 THEN <<>>
    ELSE IF 2 * r >= b THEN Places(2 * r - b, b, k - 1) \o <<1>>
    ELSE Places(2 * r, b, k - 1) \o <<0>>

\* the remainder they leave: r * 2^k modulo b
RECURSIVE Remainder(_, _, _)
Remainder(r, b, k) ==
    IF k = 0 THEN r ELSE (2 * Remainder(r, b, k - 1)) % b

\* the double a / b of integers a and b > 0, as a sign and a magnitude
Divide(a, b) ==
    LET n == IF a < 0 THEN -a ELSE a
    IN  [neg |-> a < 0,
         mag |-> Round(Trim(Places(n % b, b, FracBits) \o Bits(n \div b)),
                       Remainder(n % b, b, FracBits) # 0)]

\* int(x) with the fractional part of x >= 0 rounded away instead of dropped
ToInt_nearest(x) ==
    ToNat(SubSeq(AddCarry(x, Half, 0), FracBits + 1, Len(AddCarry(x, Half, 0))))

\* int(x) of a double x >= 0: the fractional part is dropped
ToInt(x) == ToNat(SubSeq(x, FracBits + 1, Len(x)))

\* ------------------------------------------------------- colour functions

\* get_retail_color with the default colour swapped for the colour of 'Low'
get_retail_color_low_default(retail_class) ==
    CASE retail_class = "High"   -> <<220, 38, 38, 200>>
      [] retail_class = "Medium" -> <<245, 158, 11, 200>>
      [] OTHER                   -> <<16, 185, 129, 200>>

\* colors.get(retail_class, [156, 163, 175, 150])
get_retail_color(retail_class) ==
    CASE retail_class = "High"   -> <<220, 38, 38, 200>>
      [] retail_class = "Medium" -> <<245, 158, 11, 200>>
      [] retail_class = "Low"    -> <<16, 185, 129, 200>>
      [] OTHER                   -> <<156, 163, 175, 150>>

\* normalized before the clamp, a degenerate range taken as the low end
Unclamped_degenerate_low(value, vmin, vmax) ==
    IF vmax > vmin THEN Divide(value - vmin, vmax - vmin)
    ELSE [neg |-> FALSE, mag |-> <<>>]

\* normalized = (value - vmin) / (vmax - vmin) if vmax > vmin else 0.5
Unclamped(value, vmin, vmax) ==
    IF vmax > vmin THEN Divide(value - vmin, vmax - vmin)
    ELSE [neg |-> FALSE, mag |-> Half]

\* normalized = max(0, min(1, normalized))
Clamp(x) ==
    IF x.neg THEN FromInt(0)
    ELSE IF Less(FromInt(1), x.mag) THEN FromInt(1)
    ELSE x.mag

\* The ramp for the clamped normalized value:
\*   g = int(normalized * 2 * 255)
\*   r = int(255 - (normalized - 0.5) * 2 * 255)
\*   alpha = int(150 + (normalized * 105))
Ramp(normalized) ==
    LET alpha == ToInt(Add(FromInt(150), Mul(normalized, 105)))
    IN  IF Less(normalized, Half)
        THEN <<255, ToInt(Mul(Mul(normalized, 2), 255)), 0, alpha>>
        ELSE <<ToInt(Sub(FromInt(255),
                         Mul(Mul(Sub(normalized, Half), 2), 255))),
               255, 0, alpha>>

get_color_scale(value, vmin, vmax) ==
    IF value = NaN
    THEN <<200, 200, 200, 100>>
    ELSE Ramp(Clamp(Unclamped(value, vmin, vmax)))

\* ---------------------------------------------------------------- the data

\* data_files, and the files an upload is written to (temp_path.with_suffix)
OkuPath == "data/grid_retail_expansion_score_oku.gpkg"
TangselPath == "data/grid_retail_expansion_score_tangsel.gpkg"
data_files == [OKU |-> OkuPath, Tangsel |-> TangselPath]
TempPaths == {"temp_upload.gpkg", "temp_upload.geojson", "temp_upload.shp"}
Paths == {OkuPath, TangselPath} \cup TempPaths

\* The columns the script reads by name.
OtherCols == {"gid", "pop_dasymetric", "demand_idx", "flood_risk_idx", "access_idx"}
RoadCols == {"akses_jalan_utama", "akses_jalan_arteri", "akses_jalan_kolektor"}
NamedCols == {"retail_class", "retail_score", "flood_class", "Keterangan", "KELAS_2"}
                 \cup OtherCols \cup RoadCols

\* the values retail_score takes in the modelled files
ScoreValues == {NaN, 0, 1}

\* sorted(): the labels of the model in Python's string order
LabelOrder == <<"High", "Low", "Medium", "Sawah">>

\* if 'Keterangan' in gdf.columns ... elif 'KELAS_2' in gdf.columns ... else None
landuse_col(columns) ==
    IF "Keterangan" \in columns THEN "Keterangan"
    ELSE IF "KELAS_2" \in columns THEN "KELAS_2"
    ELSE None

\* ------------------------------------------------------------- projections

\* the comprehension testing only `col`: a name absent from the frame stays
Project_keep_absent(requested, available) ==
    LET Keep(col) == col # None
    IN  SelectSeq(requested, Keep)

\* [col for col in requested if col and col in available]
RECURSIVE Project(_, _)
Project(requested, available) ==
    IF requested = <<>> THEN <<>>
    ELSE LET col == Head(requested)
             rest == Project(Tail(requested), available)
         IN  IF col # None /\ col \in available THEN <<col>> \o rest ELSE rest

\* important_cols of the tooltip, over gdf_plot.columns
important_cols_requested(columns) ==
    <<"retail_class", "retail_score", landuse_col(columns), "pop_dasymetric",
      "flood_class", "demand_idx", "flood_risk_idx", "access_idx",
      "akses_jalan_utama", "akses_jalan_arteri", "akses_jalan_kolektor">>

important_cols(columns) ==
    Project(important_cols_requested(columns), columns \cup {"coordinates"})

\* all_cols and default_cols of the data table
all_cols(columns) ==
    columns \ {"geometry", "coordinates", "fill_color", "lon", "lat"}

default_cols_requested(columns) ==
    <<"gid", "retail_class", "retail_score", landuse_col(columns),
      "pop_dasymetric", "flood_class", "demand_idx", "flood_risk_idx",
      "access_idx">>

default_cols(columns) ==
    Project(default_cols_requested(columns), all_cols(columns))

\* ------------------------------------------------------------ filter block

RECURSIVE Sorted(_, _)
\* the members of labels in the order of LabelOrder
Sorted(order, labels) ==
    IF order = <<>> THEN <<>>
    ELSE IF Head(order) \in labels
         THEN <<Head(order)>> \o Sorted(Tail(order), labels)
         ELSE Sorted(Tail(order), labels)

\* ['All'] + sorted(gdf[column].dropna().unique().tolist())
Options(rows, field) ==
    <<"All">> \o Sorted(LabelOrder,
                        {rows[i][field] : i \in DOMAIN rows} \ {None})

\* gdf[gdf[column] == selected]
FilterEq(rows, field, selected) ==
    LET Keep(r) == r[field] = selected
    IN  SelectSeq(rows, Keep)

\* if column in gdf.columns: ... if selected != 'All': gdf = gdf[gdf[column] == selected]
ClassFilter(columns, column, rows, field, selected) ==
    IF column \in columns /\ selected # "All"
    THEN FilterEq(rows, field, selected)
    ELSE rows

\* gdf['retail_score'].min() and .max(): NaN cells are skipped, NaN if none is left
Scores(rows) == {rows[i].retail_score : i \in DOMAIN rows} \ {NaN}
min_score(rows) ==
    IF Scores(rows) = {} THEN NaN
    ELSE CHOOSE m \in Scores(rows) : \A x \in Scores(rows) : m <= x
max_score(rows) ==
    IF Scores(rows) = {} THEN NaN
    ELSE CHOOSE m \in Scores(rows) : \A x \in Scores(rows) : m >= x

\* The steps of the slider, from min_score to max_score
SliderValues(rows) ==
    IF Scores(rows) = {} THEN {NaN} ELSE min_score(rows)..max_score(rows)

\* the score filter run without looking for its column
ScoreFilter_unguarded(columns, rows, selected_min_score) ==
    LET Keep(r) == /\ r.retail_score # NaN
                   /\ selected_min_score # NaN
                   /\ r.retail_score >= selected_min_score
    IN  SelectSeq(rows, Keep)

\* if 'retail_score' in gdf.columns: gdf = gdf[gdf['retail_score'] >= selected_min_score]
\* (a comparison with NaN is False)
ScoreFilter(columns, rows, selected_min_score) ==
    IF "retail_score" \in columns
    THEN LET Keep(r) == /\ r.retail_score # NaN
                        /\ selected_min_score # NaN
                        /\ r.retail_score >= selected_min_score
         IN  SelectSeq(rows, Keep)
    ELSE rows

\* ------------------------------------------------------------------ loader

Range(seq) == {seq[i] : i \in DOMAIN seq}

\* An uploaded file is its extension and its bytes; the bytes of a file are
\* what gpd.read_file makes of them: kind "garbage" does not parse.
\* if name.endswith('.gpkg') ... elif name.endswith('.geojson') ... else '.shp'
temp_file(up) ==
    IF up.ext = "gpkg" THEN "temp_upload.gpkg"
    ELSE IF up.ext = "geojson" THEN "temp_upload.geojson"
    ELSE "temp_upload.shp"

\* the path the run loads: temp_file of an upload, else data_files[selected_dataset]
LoadPath ==
    IF uploaded_file # <<>> THEN temp_file(uploaded_file[1])
    ELSE data_files[selected_dataset]

\* with open(temp_file, "wb") as f: f.write(uploaded_file.getbuffer())
DiskAfterUpload ==
    IF uploaded_file # <<>>
    THEN [disk EXCEPT ![LoadPath] = <<uploaded_file[1].bytes>>]
    ELSE disk

\* a cache that never has the entry
CacheHit_never(path) == FALSE

\* @st.cache_data: the entry is found by the argument file_path alone
CacheHit(path) == cache[path] # <<>>

\* gpd.read_file raises on a missing or unparseable file; to_crs raises on a
\* frame with no CRS
BodyReturns(file) ==
    /\ file # <<>>
    /\ file[1].kind = "ok"
    /\ file[1].crs # None

\* the frame the body of load_grid_data returns: in EPSG:4326, with lon and lat
Frame(bytes) ==
    [columns |-> bytes.columns \cup {"geometry", "lon", "lat"},
     rows |-> bytes.rows]

\* load_grid_data(LoadPath) under st.cache_data: ok is FALSE when it raised
load_grid_data ==
    LET path == LoadPath
        file == disk[path]
    IN  IF CacheHit(path)
        THEN [ok |-> TRUE, hit |-> TRUE, gdf |-> cache[path]]
        ELSE IF BodyReturns(file)
             THEN [ok |-> TRUE, hit |-> FALSE, gdf |-> <<Frame(file[1])>>]
             ELSE [ok |-> FALSE, hit |-> FALSE, gdf |-> <<>>]

\* ------------------------------------------------------------------- tabs

Category == "Retail Class (Kategori)"
Continuous == "Retail Score (Continuous)"

When(cond, out) == IF cond THEN out ELSE <<>>

\* gdf_plot.dropna(subset=[column])
DropNa(rows, field, missing) ==
    LET Keep(r) == r[field] # missing
    IN  SelectSeq(rows, Keep)

\* get_color_scale on each call of a set, tabulated
RECURSIVE ColorScales(_)
ColorScales(calls) ==
    IF calls = {} THEN <<>>
    ELSE LET c == CHOOSE c \in calls : TRUE
         IN  (c :> get_color_scale(c[1], c[2], c[3])) @@ ColorScales(calls \ {c})

\* lambda x: get_color_scale(x, vmin, vmax), for the scores of the modelled files
ScoreColors ==
    ColorScales((ScoreValues \ {NaN}) \X (ScoreValues \ {NaN}) \X (ScoreValues \ {NaN}))

\* Tab 1, lines 220-299: what the run prepares for the map.  Nothing is drawn
\* for a frame with no rows.  color_by is None when neither branch assigned
\* it: the f-string of the legend then raises NameError.
Tab1(columns, rows, viz_mode) ==
    IF Len(rows) = 0
    THEN [fill_color |-> <<>>, color_by |-> None, important_cols |-> <<>>]
    ELSE LET by_class == viz_mode = Category /\ "retail_class" \in columns
             by_score == ~by_class /\ "retail_score" \in columns
             gdf_plot == IF by_class THEN DropNa(rows, "retail_class", None)
                         ELSE IF by_score THEN DropNa(rows, "retail_score", NaN)
                         ELSE rows
             vmin == min_score(gdf_plot)
             vmax == max_score(gdf_plot)
             fill == IF by_class
                     THEN [i \in DOMAIN gdf_plot |->
                              get_retail_color(gdf_plot[i].retail_class)]
                     ELSE IF by_score
                     THEN [i \in DOMAIN gdf_plot |->
                              ScoreColors[<<gdf_plot[i].retail_score, vmin, vmax>>]]
                     ELSE <<>>
             color_by == IF by_class THEN "retail_class"
                         ELSE IF by_score THEN "retail_score"
                         ELSE None
             plot_columns == columns \cup {"coordinates"}
                                \cup (IF color_by # None THEN {"fill_color"} ELSE {})
         IN  [fill_color |-> fill,
              color_by |-> color_by,
              important_cols |-> important_cols(plot_columns)]

\* Tab 2: the describe() tables and the two crosstabs
Tab2(columns) ==
    When("retail_score" \in columns, <<"table">>)
    \o When("demand_idx" \in columns, <<"table">>)
    \o When("pop_dasymetric" \in columns, <<"table">>)
    \o When("flood_risk_idx" \in columns, <<"table">>)
    \o When("retail_class" \in columns /\ "flood_class" \in columns, <<"table">>)
    \o When("retail_class" \in columns /\ landuse_col(columns) # None, <<"table">>)

\* Tab 3: px.scatter raises ValueError on a hover_data name that is no column
Tab3(columns) ==
    LET scatter == {"demand_idx", "flood_risk_idx", "retail_class"} \subseteq columns
        hover_data_cols == {"gid", "retail_score"}
                              \cup ({landuse_col(columns)} \ {None})
    IN  When("retail_class" \in columns, <<"chart">>)
        \o When("retail_score" \in columns, <<"chart">>)
        \o When({"retail_class", "demand_idx"} \subseteq columns, <<"chart">>)
        \o When({"retail_class", "pop_dasymetric"} \subseteq columns, <<"chart">>)
        \o When(scatter, IF hover_data_cols \subseteq columns
                         THEN <<"chart">> ELSE <<"exception">>)

\* Tab 4: st.dataframe and the download button, if any column is selected
Tab4(display_cols) ==
    When(display_cols # <<>>, <<"table", "download">>)

\* the selections a user makes in the multiselect, besides its default
Picked == {<<>>, <<"gid", "pop_dasymetric">>}

\* display_cols = st.multiselect(..., all_cols, default=default_cols): the
\* default in the first run of a session, afterwards the default or any list
\* the user picked from all_cols
DisplayChoices(columns) ==
    IF first_run THEN {default_cols(columns)}
    ELSE {default_cols(columns)}
             \cup {p \in Picked : Range(p) \subseteq all_cols(columns)}

\* ---------------------------------------------------------------- widgets

\* a selectbox that starts on 'High' when the label is among its options
selectbox_default_high(options) ==
    IF "High" \in Range(options) THEN "High" ELSE options[1]

\* st.sidebar.selectbox(label, options) with no index: the first option
selectbox_default(options) == options[1]

\* The value a selectbox returns: None when its column is absent and the
\* widget is never created, its default in the first run of a session, any
\* option afterwards.
SelectChoices(present, options) ==
    IF ~present THEN {None}
    ELSE IF first_run THEN {selectbox_default(options)}
    ELSE Range(options)

\* st.sidebar.slider(min_value=float(min_score), max_value=float(max_score),
\* value=float(min_score)): the outcomes of the call, <<v>> when it returns v
\* and <<>> when it raises StreamlitAPIException.  Streamlit refuses a slider
\* whose min_value is not less than its max_value, which is the case when
\* every non-null score of gdf is the same.  With no non-null score both
\* bounds and the value are NaN; the script does not settle what the call
\* does then, and both outcomes are followed.  A slider that is drawn returns
\* min_score until the user moves it, then any of its steps.  With no
\* retail_score column there is no call and no value (NaN).
SliderChoices(columns, rows) ==
    IF "retail_score" \notin columns THEN {<<NaN>>}
    ELSE IF Scores(rows) = {} THEN {<<>>, <<NaN>>}
    ELSE IF min_score(rows) = max_score(rows) THEN {<<>>}
    ELSE IF first_run THEN {<<min_score(rows)>>}
    ELSE {<<v>> : v \in SliderValues(rows)}

\* st.radio(..., [Category, Continuous]): the first option by default
VizChoices == IF first_run THEN {Category} ELSE {Category, Continuous}

NoWidgets ==
    [retail |-> None, flood |-> None, landuse |-> None, min_score |-> NaN,
     viz_mode |-> None, display_cols |-> <<>>]

NoPlot ==
    [fill_color |-> <<>>, color_by |-> None, important_cols |-> <<>>,
     default_cols |-> <<>>]

\* --------------------------------------------------------------- the script

\* the most executions of gpd.read_file between two clears of the cache that
\* are followed
MaxParses == 2

\* the executions of gpd.read_file since the cache was cleared
RECURSIVE Executions(_)
Executions(paths) ==
    IF paths = {} THEN 0
    ELSE LET p == CHOOSE p \in paths : TRUE
         IN  parses[p] + Executions(paths \ {p})

\* Lines 88-100 of a run: the uploaded file, if any, is written to its
\* temporary path.
WriteUpload ==
    /\ pc = "run"
    /\ disk' = DiskAfterUpload
    /\ pc' = "load"
    /\ UNCHANGED <<args, ret, cache, parses, first_run, uploaded_file,
                   selected_dataset, widgets, loaded, from_cache, stages, plot,
                   todo, rendered>>

\* Lines 103 / 111-112: load_grid_data under st.cache_data.  On a miss the
\* body runs, and gpd.read_file with it, and only a frame that is returned is
\* stored.
Load ==
    /\ pc = "load"
    /\ CacheHit(LoadPath) \/ Executions(Paths) < MaxParses
    /\ \E ld \in {load_grid_data} :
           /\ cache' = IF ld.ok /\ ~ld.hit
                        THEN [cache EXCEPT ![LoadPath] = ld.gdf] ELSE cache
           /\ parses' = IF ld.hit THEN parses
                         ELSE [parses EXCEPT ![LoadPath] = @ + 1]
           /\ loaded' = ld.gdf
           /\ from_cache' = ld.hit
           /\ pc' = IF ld.ok THEN "loaded" ELSE "failed"
    /\ UNCHANGED <<args, ret, disk, first_run, uploaded_file, selected_dataset,
                   widgets, stages, plot, todo, rendered>>

\* Lines 106-108 / 115-117: the load raised; st.error, and st.stop() ends
\* the run.
ShowError ==
    /\ pc = "failed"
    /\ rendered' = Append(rendered, "error")
    /\ pc' = "done"
    /\ UNCHANGED <<args, ret, disk, cache, parses, first_run, uploaded_file,
                   selected_dataset, widgets, loaded, from_cache, stages, plot,
                   todo>>

\* Lines 104 / 113: st.sidebar.success or st.sidebar.info, then landuse_col
ShowInfo ==
    /\ pc = "loaded"
    /\ rendered' = Append(rendered, "info")
    /\ pc' = "retail"
    /\ UNCHANGED <<args, ret, disk, cache, parses, first_run, uploaded_file,
                   selected_dataset, widgets, loaded, from_cache, stages, plot,
                   todo>>

\* gdf.columns: the filter block keeps the columns of the loaded frame
GdfColumns == loaded[1].columns

\* the rows of gdf where the run is
GdfRows == IF stages = <<>> THEN loaded[1].rows ELSE stages[Len(stages)]

\* Lines 130-137: the subheader of the filter block and the retail_class filter
FilterRetail ==
    /\ pc = "retail"
    /\ \E sr \in SelectChoices("retail_class" \in GdfColumns,
                               Options(GdfRows, "retail_class")) :
           /\ widgets' = [widgets EXCEPT !.retail = sr]
           /\ stages' = Append(stages, ClassFilter(GdfColumns, "retail_class",
                                                   GdfRows, "retail_class", sr))
    /\ pc' = "flood"
    /\ UNCHANGED <<args, ret, disk, cache, parses, first_run, uploaded_file,
                   selected_dataset, loaded, from_cache, plot, todo, rendered>>

\* Lines 140-144: the flood_class filter
FilterFlood ==
    /\ pc = "flood"
    /\ \E sf \in SelectChoices("flood_class" \in GdfColumns,
                               Options(GdfRows, "flood_class")) :
           /\ widgets' = [widgets EXCEPT !.flood = sf]
           /\ stages' = Append(stages, ClassFilter(GdfColumns, "flood_class",
                                                   GdfRows, "flood_class", sf))
    /\ pc' = "landuse"
    /\ UNCHANGED <<args, ret, disk, cache, parses, first_run, uploaded_file,
                   selected_dataset, loaded, from_cache, plot, todo, rendered>>

\* Lines 147-151: the land-use filter
FilterLanduse ==
    /\ pc = "landuse"
    /\ \E sl \in SelectChoices(landuse_col(GdfColumns) # None,
                               Options(GdfRows, "landuse")) :
           /\ widgets' = [widgets EXCEPT !.landuse = sl]
           /\ stages' = Append(stages, ClassFilter(GdfColumns, landuse_col(GdfColumns),
                                                   GdfRows, "landuse", sl))
    /\ pc' = "score"
    /\ UNCHANGED <<args, ret, disk, cache, parses, first_run, uploaded_file,
                   selected_dataset, loaded, from_cache, plot, todo, rendered>>

\* Lines 154-164: the retail_score slider and its filter.  When the slider
\* call raises, Streamlit shows the exception and the run is over, before
\* line 164.
FilterScore ==
    /\ pc = "score"
    /\ \E slider \in SliderChoices(GdfColumns, GdfRows) :
           IF slider = <<>>
           THEN /\ rendered' = Append(rendered, "exception")
                /\ pc' = "done"
                /\ UNCHANGED <<widgets, stages>>
           ELSE /\ widgets' = [widgets EXCEPT !.min_score = slider[1]]
                /\ stages' = Append(stages, ScoreFilter(GdfColumns, GdfRows,
                                                        slider[1]))
                /\ pc' = "main"
                /\ UNCHANGED rendered
    /\ UNCHANGED <<args, ret, disk, cache, parses, first_run, uploaded_file,
                   selected_dataset, loaded, from_cache, plot, todo>>

\* Lines 169-194: the title and the row of metrics
DrawMetrics ==
    /\ pc = "main"
    /\ rendered' = Append(rendered, "metrics")
    /\ pc' = "tab1"
    /\ UNCHANGED <<args, ret, disk, cache, parses, first_run, uploaded_file,
                   selected_dataset, widgets, loaded, from_cache, stages, plot,
                   todo>>

\* the outputs of tabs 2 and 3, lines 326-452
TabsOutputs == Tab2(GdfColumns) \o Tab3(GdfColumns)

\* where the run is after a block, with the outputs `outputs` ahead of it
AfterTab1(outputs) == IF outputs = <<>> THEN "tab4" ELSE "tabs"

\* Lines 199-299: st.tabs, the subheader and the radio of tab 1, and the
\* colours, the tooltip columns and the deck of the map.  With no rows the
\* run goes on to tab 2.
ReadVizMode ==
    /\ pc = "tab1"
    /\ \E vm \in VizChoices :
       \E t1 \in {Tab1(GdfColumns, GdfRows, vm)} :
           /\ widgets' = [widgets EXCEPT !.viz_mode = vm]
           /\ plot' = [plot EXCEPT !.fill_color = t1.fill_color,
                                   !.color_by = t1.color_by,
                                   !.important_cols = t1.important_cols]
    /\ IF Len(GdfRows) > 0
       THEN pc' = "map" /\ todo' = todo
       ELSE pc' = AfterTab1(TabsOutputs) /\ todo' = TabsOutputs
    /\ UNCHANGED <<args, ret, disk, cache, parses, first_run, uploaded_file,
                   selected_dataset, loaded, from_cache, stages, rendered>>

\* Line 301: st.pydeck_chart
DrawMap ==
    /\ pc = "map"
    /\ rendered' = Append(rendered, "map")
    /\ pc' = "legend"
    /\ UNCHANGED <<args, ret, disk, cache, parses, first_run, uploaded_file,
                   selected_dataset, widgets, loaded, from_cache, stages, plot,
                   todo>>

\* Lines 304-321: the legend.  With color_by unassigned the f-string of line
\* 304 raises NameError: Streamlit shows the exception and the run is over.
DrawLegend ==
    /\ pc = "legend"
    /\ IF plot.color_by = None
       THEN /\ rendered' = Append(rendered, "exception")
            /\ pc' = "done"
            /\ todo' = todo
       ELSE /\ rendered' = Append(rendered, "legend")
            /\ pc' = AfterTab1(TabsOutputs)
            /\ todo' = TabsOutputs
    /\ UNCHANGED <<args, ret, disk, cache, parses, first_run, uploaded_file,
                   selected_dataset, widgets, loaded, from_cache, stages, plot>>

\* Lines 326-452 and 473-503: the next output of the tabs or of the end of
\* the script.  An uncaught exception is shown and ends the run; after the
\* last output of tab 3 comes tab 4, after the footer the run is done.
DrawNext ==
    /\ pc \in {"tabs", "tail"}
    /\ todo # <<>>
    /\ rendered' = Append(rendered, Head(todo))
    /\ IF Head(todo) = "exception"
       THEN pc' = "done" /\ todo' = <<>>
       ELSE /\ todo' = Tail(todo)
            /\ pc' = IF Tail(todo) # <<>> THEN pc
                     ELSE IF pc = "tabs" THEN "tab4"
                     ELSE "done"
    /\ UNCHANGED <<args, ret, disk, cache, parses, first_run, uploaded_file,
                   selected_dataset, widgets, loaded, from_cache, stages, plot>>

\* Lines 457-465: the subheader of tab 4, all_cols and default_cols
OpenTab4 ==
    /\ pc = "tab4"
    /\ plot' = [plot EXCEPT !.default_cols = default_cols(GdfColumns)]
    /\ pc' = "multiselect"
    /\ UNCHANGED <<args, ret, disk, cache, parses, first_run, uploaded_file,
                   selected_dataset, widgets, loaded, from_cache, stages, todo,
                   rendered>>

\* Lines 467-473: the multiselect; the table, the download button and the
\* footer are ahead.
ReadDisplayCols ==
    /\ pc = "multiselect"
    /\ \E dc \in DisplayChoices(GdfColumns) :
           /\ widgets' = [widgets EXCEPT !.display_cols = dc]
           /\ todo' = Tab4(dc) \o <<"footer">>
    /\ pc' = "tail"
    /\ UNCHANGED <<args, ret, disk, cache, parses, first_run, uploaded_file,
                   selected_dataset, loaded, from_cache, stages, plot, rendered>>

\* The statement the run is at calls st.*: every such call first looks for a
\* pending rerun request.  The class filters and the slider make their call
\* only if their column is there; st.cache_data shows its spinner on a miss;
\* an uncaught exception is shown with st.exception.
AtStCall ==
    \/ pc \in {"run", "failed", "loaded", "retail", "main", "tab1", "map",
               "legend", "tabs", "tab4", "multiselect", "tail"}
    \/ pc = "load" /\ ~CacheHit(LoadPath)
    \/ pc = "flood" /\ "flood_class" \in GdfColumns
    \/ pc = "landuse" /\ landuse_col(GdfColumns) # None
    \/ pc = "score" /\ "retail_score" \in GdfColumns

\* A widget changes while the script runs: the run ends at its next st.*
\* call (RerunException, which no except clause of the script catches), with
\* what it has read and drawn until then.
Stop ==
    /\ AtStCall
    /\ pc' = "stopped"
    /\ UNCHANGED <<args, ret, disk, cache, parses, first_run, uploaded_file,
                   selected_dataset, widgets, loaded, from_cache, stages, plot,
                   todo, rendered>>

\* one run of the script
RunStep ==
    \/ WriteUpload \/ Load \/ ShowError \/ ShowInfo
    \/ FilterRetail \/ FilterFlood \/ FilterLanduse \/ FilterScore
    \/ DrawMetrics \/ ReadVizMode \/ DrawMap \/ DrawLegend
    \/ DrawNext \/ OpenTab4 \/ ReadDisplayCols
    \/ Stop

\* ------------------------------------------------------------ the files

\* the most features a modelled file has
MaxRows == 3

\* the features of the modelled files, with every attribute
Features ==
    {[retail_class |-> "High", flood_class |-> "Low", landuse |-> "Sawah",
      retail_score |-> 1],
     [retail_class |-> "Low", flood_class |-> None, landuse |-> None,
      retail_score |-> 0],
     [retail_class |-> None, flood_class |-> "Low", landuse |-> "Sawah",
      retail_score |-> NaN],
     [retail_class |-> "High", flood_class |-> None, landuse |-> None,
      retail_score |-> NaN],
     [retail_class |-> "Low", flood_class |-> "Low", landuse |-> None,
      retail_score |-> 1]}

\* the rows a file with these columns can have; an absent column reads as null
RowsOf(columns) ==
    {[retail_class |-> IF "retail_class" \in columns THEN f.retail_class ELSE None,
      flood_class  |-> IF "flood_class" \in columns THEN f.flood_class ELSE None,
      landuse      |-> IF landuse_col(columns) # None THEN f.landuse ELSE None,
      retail_score |-> IF "retail_score" \in columns THEN f.retail_score ELSE NaN] :
        f \in Features}

\* the columns of the files of one run: any of the three filter attributes,
\* with or without a land-use column
Schemas ==
    {A \cup L \cup OtherCols :
        A \in SUBSET {"retail_class", "flood_class", "retail_score"},
        L \in {{}, {"Keterangan"}, {"KELAS_2"}}}

\* bytes that are no geometry container
Garbage == [kind |-> "garbage", crs |-> None, columns |-> {}, rows |-> <<>>]

GridA ==
    [kind |-> "ok", crs |-> "EPSG:4326",
     columns |-> {"retail_class", "retail_score"},
     rows |-> <<[retail_class |-> "High", flood_class |-> None,
                 landuse |-> None, retail_score |-> 1],
                [retail_class |-> "Low", flood_class |-> None,
                 landuse |-> None, retail_score |-> 0]>>]

\* a grid in a projected CRS, which to_crs reprojects
GridB ==
    [kind |-> "ok", crs |-> "EPSG:32748",
     columns |-> {"retail_class", "KELAS_2"},
     rows |-> <<[retail_class |-> "Low", flood_class |-> None,
                 landuse |-> "Sawah", retail_score |-> NaN]>>]

\* a grid that declares no CRS: to_crs raises
GridNoCrs == [GridA EXCEPT !.crs = None]

\* the main file of a shapefile: the script writes it to temp_upload.shp
\* alone, and without its .shx, .dbf and .prj gpd.read_file raises
ShpAlone == [kind |-> "shp", crs |-> None, columns |-> {}, rows |-> <<>>]

\* a file between open(temp_file, "wb") and the end of f.write: empty, or
\* the beginning of its content; gpd.read_file raises
Unwritten == [kind |-> "unwritten", crs |-> None, columns |-> {}, rows |-> <<>>]

\* The files the users upload, each the extension of its name (type=['gpkg',
\* 'shp', 'geojson']) and its content.
Uploads ==
    {[ext |-> "gpkg", bytes |-> GridA],
     [ext |-> "gpkg", bytes |-> GridB],
     [ext |-> "gpkg", bytes |-> Garbage],
     [ext |-> "geojson", bytes |-> GridA],
     [ext |-> "shp", bytes |-> ShpAlone]}

\* A widget interaction reruns the script: the user uploads or removes a
\* file, or picks a dataset, or moves a widget that the run then reads.
Interact ==
    /\ pc \in {"done", "stopped"}
    /\ \E up \in {<<>>} \cup {<<u>> : u \in Uploads} :
       \E ds \in DOMAIN data_files :
           /\ up = uploaded_file \/ ds = selected_dataset
           /\ uploaded_file' = up
           /\ selected_dataset' = ds
    /\ first_run' = FALSE
    /\ pc' = "run"
    /\ widgets' = NoWidgets /\ loaded' = <<>> /\ from_cache' = FALSE
    /\ stages' = <<>> /\ plot' = NoPlot /\ todo' = <<>> /\ rendered' = <<>>
    /\ UNCHANGED <<args, ret, disk, cache, parses>>

\* A new browser session: no widget state, the same process and cache
NewSession ==
    /\ pc \in {"done", "stopped"}
    /\ ~first_run
    /\ uploaded_file' = <<>>
    /\ selected_dataset' = "OKU"
    /\ first_run' = TRUE
    /\ pc' = "run"
    /\ widgets' = NoWidgets /\ loaded' = <<>> /\ from_cache' = FALSE
    /\ stages' = <<>> /\ plot' = NoPlot /\ todo' = <<>> /\ rendered' = <<>>
    /\ UNCHANGED <<args, ret, disk, cache, parses>>

\* st.cache_data.clear(), or a restart of the process
ClearCache ==
    /\ pc \in {"done", "stopped"}
    /\ \E p \in Paths : cache[p] # <<>>
    /\ cache' = [p \in Paths |-> <<>>]
    /\ parses' = [p \in Paths |-> 0]
    /\ UNCHANGED <<pc, args, ret, disk, first_run, uploaded_file,
                   selected_dataset, widgets, loaded, from_cache, stages, plot,
          todo, rendered>>

\* The other sessions of the process run the same script in their own
\* threads, on the same files and the same cache.  This session reads both
\* in its load only, so their steps are followed while its load is pending.

\* Line 99 in another session, for an upload of the same extension:
\* open(temp_file, "wb") empties the file.
OtherSessionOpen ==
    /\ pc = "load"
    /\ uploaded_file # <<>>
    /\ disk[LoadPath] # <<Unwritten>>
    /\ disk' = [disk EXCEPT ![LoadPath] = <<Unwritten>>]
    /\ UNCHANGED <<pc, args, ret, cache, parses, first_run, uploaded_file,
                   selected_dataset, widgets, loaded, from_cache, stages, plot,
                   todo, rendered>>

\* Line 100 in that session: f.write(uploaded_file.getbuffer()) has returned
OtherSessionWrite ==
    /\ pc = "load"
    /\ uploaded_file # <<>>
    /\ disk[LoadPath] = <<Unwritten>>
    /\ \E u \in Uploads : /\ temp_file(u) = LoadPath
                          /\ disk' = [disk EXCEPT ![LoadPath] = <<u.bytes>>]
    /\ UNCHANGED <<pc, args, ret, cache, parses, first_run, uploaded_file,
                   selected_dataset, widgets, loaded, from_cache, stages, plot,
                   todo, rendered>>

\* Lines 103 / 112 in another session, on the path this run is about to
\* load: a miss runs the body there, and a frame it returns is in the cache
\* before this session's load.
OtherSessionLoad ==
    /\ pc = "load"
    /\ ~CacheHit(LoadPath)
    /\ Executions(Paths) < MaxParses
    /\ parses' = [parses EXCEPT ![LoadPath] = @ + 1]
    /\ cache' = IF BodyReturns(disk[LoadPath])
                 THEN [cache EXCEPT ![LoadPath] = <<Frame(disk[LoadPath][1])>>]
                 ELSE cache
    /\ UNCHANGED <<pc, args, ret, disk, first_run, uploaded_file,
                   selected_dataset, widgets, loaded, from_cache, stages, plot,
                   todo, rendered>>

\* ------------------------------------------------------- specifications

NoArgs ==
    [fn |-> None, retail_class |-> None, value |-> NaN, vmin |-> 0, vmax |-> 0,
     columns |-> {}]

FreshRun ==
    /\ pc = "run"
    /\ args = NoArgs /\ ret = <<>>
    /\ cache = [p \in Paths |-> <<>>]
    /\ parses = [p \in Paths |-> 0]
    /\ uploaded_file = <<>>
    /\ selected_dataset = "OKU"
    /\ widgets = NoWidgets /\ loaded = <<>> /\ from_cache = FALSE
    /\ stages = <<>> /\ plot = NoPlot /\ todo = <<>> /\ rendered = <<>>

\* A session of one process: the first run shows the OKU grid, then the user
\* uploads files and switches datasets; the cache outlives the session.
Init ==
    /\ FreshRun
    /\ first_run = TRUE
    /\ disk = [p \in Paths |-> IF p = OkuPath THEN <<GridA>>
                                ELSE IF p = TangselPath THEN <<GridB>>
                                ELSE <<>>]

Next ==
    \/ RunStep
    \/ OtherSessionOpen \/ OtherSessionWrite \/ OtherSessionLoad
    \/ Interact \/ NewSession \/ ClearCache

Spec == Init /\ [][Next]_vars

OnlyOku(bytes) == [p \in Paths |-> IF p = OkuPath THEN <<bytes>> ELSE <<>>]

\* One run of the script over any file of the family, in the first run of a
\* session or in a later one.
InitRun ==
    /\ FreshRun
    /\ first_run \in BOOLEAN
    /\ \/ \E c \in Schemas : \E k \in 0..MaxRows : \E r \in [1..k -> RowsOf(c)] :
              disk = OnlyOku([kind |-> "ok", crs |-> "EPSG:4326",
                              columns |-> c, rows |-> r])
       \/ \E b \in {Garbage, GridNoCrs, GridB} : disk = OnlyOku(b)
       \/ disk = [p \in Paths |-> <<>>]

NextRun == RunStep

SpecRun == InitRun /\ [][NextRun]_vars

\* A call of one of the two colour functions, on integers.
MaxWidth == 10
MaxOff == 2

ClassLabels == {"High", "Medium", "Low", None, "high", "Sawah", ""}

\* [vmin, vmax]: the proper ranges, and the degenerate ones (vmax <= vmin)
ScaleRanges ==
    {<<lo, lo + w>> : lo \in -1..1, w \in 1..MaxWidth}
    \cup {<<lo, lo - k>> : lo \in -1..1, k \in 0..1}

ScaleValues(r) ==
    {NaN} \cup (Min(r[1], r[2]) - MaxOff)..(Max(r[1], r[2]) + MaxOff)

ScaleCall(v, lo, hi) ==
    [NoArgs EXCEPT !.fn = "get_color_scale", !.value = v, !.vmin = lo, !.vmax = hi]

ScaleCalls ==
    UNION {{ScaleCall(v, r[1], r[2]) : v \in ScaleValues(r)} : r \in ScaleRanges}

ColorCalls ==
    {[NoArgs EXCEPT !.fn = "get_retail_color", !.retail_class = l] :
        l \in ClassLabels}
    \cup ScaleCalls

NoSession ==
    /\ disk = [p \in Paths |-> <<>>]
    /\ cache = [p \in Paths |-> <<>>]
    /\ parses = [p \in Paths |-> 0]
    /\ first_run = TRUE
    /\ uploaded_file = <<>>
    /\ selected_dataset = "OKU"
    /\ widgets = NoWidgets /\ loaded = <<>> /\ from_cache = FALSE
    /\ stages = <<>> /\ plot = NoPlot /\ todo = <<>> /\ rendered = <<>>

InitColor ==
    /\ pc = "call"
    /\ args \in ColorCalls
    /\ ret = <<>>
    /\ NoSession

Return(value) ==
    /\ pc = "call"
    /\ ret' = value
    /\ pc' = "returned"
    /\ UNCHANGED <<args, disk, cache, parses, first_run, uploaded_file,
                   selected_dataset, widgets, loaded, from_cache, stages, plot,
          todo, rendered>>

CallRetailColor ==
    /\ args.fn = "get_retail_color"
    /\ Return(get_retail_color(args.retail_class))

CallColorScale ==
    /\ args.fn = "get_color_scale"
    /\ Return(get_color_scale(args.value, args.vmin, args.vmax))

NextColor == CallRetailColor \/ CallColorScale

SpecColor == InitColor /\ [][NextColor]_vars

\* The two projections, over every set of the columns the script names.
InitProject ==
    /\ pc = "call"
    /\ \E f \in {"important_cols", "default_cols"} :
       \E c \in SUBSET NamedCols :
           args = [NoArgs EXCEPT !.fn = f,
                                 !.columns = c \cup {"geometry", "lon", "lat"}]
    /\ ret = <<>>
    /\ NoSession

BuildImportantCols ==
    /\ args.fn = "important_cols"
    /\ Return(important_cols(args.columns))

BuildDefaultCols ==
    /\ args.fn = "default_cols"
    /\ Return(default_cols(args.columns))

NextProject == BuildImportantCols \/ BuildDefaultCols

SpecProject == InitProject /\ [][NextProject]_vars

\* ------------------------------------------------------------------ claims

Returned(fn) == pc = "returned" /\ args.fn = fn

\* C1 as the specification states it: get_retail_color returns
\* [220,38,38,160] for "High", [245,158,11,160] for "Medium",
\* [16,185,129,160] for "Low" and [160,160,160,120] for None and for every
\* other label.
C1_ReferencePalette ==
    Returned("get_retail_color") =>
        ret = CASE args.retail_class = "High"   -> <<220, 38, 38, 160>>
                [] args.retail_class = "Medium" -> <<245, 158, 11, 160>>
                [] args.retail_class = "Low"    -> <<16, 185, 129, 160>>
                [] OTHER                        -> <<160, 160, 160, 120>>

\* C1, amended: get_retail_color returns [220,38,38,200] for "High",
\* [245,158,11,200] for "Medium", [16,185,129,200] for "Low" and
\* [156,163,175,150] for None and for every other label; it returns one of
\* these four colours for every label.
C1_CodePalette ==
    Returned("get_retail_color") =>
        /\ args.retail_class = "High" => ret = <<220, 38, 38, 200>>
        /\ args.retail_class = "Medium" => ret = <<245, 158, 11, 200>>
        /\ args.retail_class = "Low" => ret = <<16, 185, 129, 200>>
        /\ args.retail_class \notin {"High", "Medium", "Low"}
               => ret = <<156, 163, 175, 150>>

\* C1's case: the colour of a null label and of an unrecognised one was returned
C1_Witness ==
    /\ Returned("get_retail_color")
    /\ args.retail_class \in {None, "high"}
    /\ ret = <<156, 163, 175, 150>>

\* For C2: a proper range, a value that is not null; d is the width of the
\* range and c the distance of the value from vmin, clamped to 0..d, so that
\* the clamped normalized value is c/d.
ProperCall ==
    /\ Returned("get_color_scale")
    /\ args.value # NaN
    /\ args.vmax > args.vmin

Width == args.vmax - args.vmin

Clamped ==
    IF args.value < args.vmin THEN 0
    ELSE IF args.value > args.vmax THEN Width
    ELSE args.value - args.vmin

Abs(x) == IF x >= 0 THEN x ELSE -x

\* k is x/d rounded to the nearest integer, d > 0
Nearest(k, x, d) == 2 * Abs(k * d - x) <= d

\* k is x/d with its fractional part dropped, x >= 0, d > 0
Truncated(k, x, d) == k * d <= x /\ x < (k + 1) * d

\* k is int() of a double that approximates x/d: the integer part of x/d or,
\* where x/d is a whole number that the double falls just below, x/d - 1
IntOfDouble(k, x, d) ==
    \/ Truncated(k, x, d)
    \/ x % d = 0 /\ (k + 1) * d = x

C3_DegenerateRange ==
    (/\ Returned("get_color_scale")
     /\ args.value # NaN
     /\ args.vmax <= args.vmin)
        => /\ Len(ret) = 4
           /\ ret[1] = 255 /\ ret[2] = 255 /\ ret[3] = 0
           /\ ret[4] = get_color_scale(5, 0, 10)[4]

\* C3's case: a call with vmax = vmin and a value off that point returned
C3_Witness ==
    /\ Returned("get_color_scale")
    /\ args.vmax = args.vmin
    /\ args.value \notin {NaN, args.vmin}
    /\ ret = <<255, 255, 0, 202>>

\* ---- the script

Done == pc = "done"
Loaded == pc = "done" /\ loaded # <<>>
Columns == loaded[1].columns
Drawn == Range(rendered)

\* the rows the filter block left
Filtered == stages[Len(stages)]

AllHave(rows, field, label) == \A i \in DOMAIN rows : rows[i][field] = label

\* C4 as the specification states it: in the first run of a session, with no
\* control touched, the rows that pass the filter block have retail_class
\* "High" when the column is present and flood_class "Low" when it is.
C4_DefaultSelectsHighLowRisk ==
    (Loaded /\ first_run) =>
        /\ "retail_class" \in Columns => AllHave(Filtered, "retail_class", "High")
        /\ "flood_class" \in Columns => AllHave(Filtered, "flood_class", "Low")

\* C4, amended: in the first run of a session every class dropdown is on
\* 'All', the first entry of its option list, and the retail_class and
\* flood_class steps of the filter block leave the loaded rows unchanged.
C4_DefaultIsAll ==
    (Loaded /\ first_run) =>
        /\ "retail_class" \in Columns => widgets.retail = "All"
        /\ "flood_class" \in Columns => widgets.flood = "All"
        /\ stages[1] = loaded[1].rows
        /\ stages[2] = loaded[1].rows

\* C4's case: a first run over a grid with both class columns, a 'High' row
\* among the options, and a row of another class left by the class filters
C4_Witness ==
    /\ Loaded /\ first_run
    /\ {"retail_class", "flood_class"} \subseteq Columns
    /\ \E i \in DOMAIN loaded[1].rows : loaded[1].rows[i].retail_class = "High"
    /\ \E i \in DOMAIN stages[2] : /\ stages[2][i].retail_class = "Low"
                                   /\ stages[2][i].flood_class = None

\* C5 as the specification states it: between two clears of the cache
\* gpd.read_file is executed at most once for each cache key.
C5_ParsedAtMostOnce == \A p \in Paths : parses[p] <= 1

\* C5, amended: a load of a key that has a cache entry returns the entry and
\* parses nothing, and a key is not parsed while it has an entry: two loads
\* of a source that loads return equal frames and the second one parses
\* nothing.  (A load that raises stores nothing: it is parsed again by the
\* next run.)
C5_CachedNotParsedAgain ==
    [][/\ (pc = "load" /\ pc' = "loaded" /\ cache[LoadPath] # <<>>)
           => loaded' = cache[LoadPath] /\ parses' = parses /\ cache' = cache
       /\ \A p \in Paths :
              cache[p] # <<>> /\ cache'[p] # <<>>
                  => parses'[p] = parses[p] /\ cache'[p] = cache[p]]_vars

\* C5's case: a later run loaded, from the cache, a key that was parsed twice:
\* once for an upload that did not load, once for the upload cached since
C5_Witness ==
    /\ Loaded /\ ~first_run
    /\ from_cache
    /\ parses[LoadPath] = 2
    /\ loaded = cache[LoadPath]

\* an error was shown: st.error of a failed load, or an uncaught exception
ErrorShown == "error" \in Drawn \/ "exception" \in Drawn

\* the attribute the colouring needs is absent
NoColourAttribute ==
    /\ loaded # <<>>
    /\ \/ widgets.viz_mode = Continuous /\ "retail_score" \notin Columns
       \/ {"retail_class", "retail_score"} \cap Columns = {}

\* C6: in a run where the load failed, or where the attribute needed for
\* colouring is absent, an error is shown and no map, legend, chart or table
\* is drawn, before or after it.
C6_ErrorsAreTerminal ==
    (Done /\ (loaded = <<>> \/ NoColourAttribute)) =>
        /\ ErrorShown
        /\ Drawn \cap {"map", "legend", "chart", "table"} = {}

\* C7: the filter step of an attribute that is absent from the columns leaves
\* the rows as they were, in the same order, and raises no error: a run that
\* ended inside the filter block ended in the step of an attribute that is a
\* column.  For retail_class, flood_class, the land-use column and
\* retail_score, in every state of a run, finished or not.
C7_AbsentAttributeNoOp ==
    loaded # <<>> =>
        /\ (Len(stages) >= 1 /\ "retail_class" \notin Columns)
               => stages[1] = loaded[1].rows
        /\ (Len(stages) >= 2 /\ "flood_class" \notin Columns)
               => stages[2] = stages[1]
        /\ (Len(stages) >= 3 /\ {"Keterangan", "KELAS_2"} \cap Columns = {})
               => stages[3] = stages[2]
        /\ (Len(stages) >= 4 /\ "retail_score" \notin Columns)
               => stages[4] = stages[3]
        /\ (Done /\ Len(stages) = 0) => "retail_class" \in Columns
        /\ (Done /\ Len(stages) = 1) => "flood_class" \in Columns
        /\ (Done /\ Len(stages) = 2) => {"Keterangan", "KELAS_2"} \cap Columns # {}
        /\ (Done /\ Len(stages) = 3) => "retail_score" \in Columns

\* C7's case: a grid without retail_score and without a land-use column,
\* whose rows a flood_class filter had narrowed before
C7_Witness ==
    /\ Loaded
    /\ "retail_score" \notin Columns
    /\ {"Keterangan", "KELAS_2"} \cap Columns = {}
    /\ widgets.flood = "Low"
    /\ Len(stages[2]) < Len(stages[1])
    /\ stages[4] = stages[2] /\ stages[4] # <<>>

\* C8: the tooltip list and the table list are the requested list without
\* the names absent from the frame and without None: the same names, in the
\* requested order, none added, none twice.
Requested ==
    IF args.fn = "important_cols" THEN important_cols_requested(args.columns)
    ELSE default_cols_requested(args.columns)

Position(seq, x) == CHOOSE i \in DOMAIN seq : seq[i] = x

C8_ProjectionSkipsAbsent ==
    (Returned("important_cols") \/ Returned("default_cols")) =>
        /\ Range(ret) = (Range(Requested) \cap args.columns) \ {None}
        /\ \A i, j \in DOMAIN ret :
               i < j => Position(Requested, ret[i]) < Position(Requested, ret[j])

\* C8's case: a list was built for a frame with no land-use column (None is
\* requested) that lacks 'retail_score' and has 'flood_class'
C8_Witness ==
    /\ Returned("important_cols")
    /\ landuse_col(args.columns) = None
    /\ "retail_score" \notin args.columns
    /\ {"retail_class", "flood_class", "access_idx"} \subseteq args.columns
    /\ Len(ret) < 10

\* C9: the frame the script works on for an uploaded file is the parse of
\* the bytes uploaded in that run.
C9_UploadIsParsed ==
    (Loaded /\ uploaded_file # <<>>) =>
        /\ BodyReturns(<<uploaded_file[1].bytes>>)
        /\ loaded = <<Frame(uploaded_file[1].bytes)>>

\* the filter block ran to its end, and every filter control is in its
\* neutral position; the slider, if there is one, was drawn between two
\* different scores
Neutral ==
    /\ Len(stages) = 4
    /\ widgets.retail \in {"All", None}
    /\ widgets.flood \in {"All", None}
    /\ widgets.landuse \in {"All", None}
    /\ widgets.min_score = min_score(stages[3])
    /\ "retail_score" \in Columns => min_score(stages[3]) < max_score(stages[3])

\* C10: with every filter control in its neutral position the filter block
\* is the identity: the rows after it are the loaded rows.
C10_NeutralIsIdentity ==
    (Loaded /\ Neutral) => stages[4] = loaded[1].rows

====
